---------------------------- MODULE Spec2Model ----------------------------
(***************************************************************************)
(* A model of paperlesscad.solution.dfm_check: the manufacturability check *)
(* of a boundary representation for a flat cutting process.                *)
(*                                                                         *)
(* The geometry kernel (FreeCAD Part) is outside the repository: what it   *)
(* answers for a face, an edge or a pair of faces is part of the input     *)
(* shape below.  Lengths are integers in units of 1/80 mm, unit vectors    *)
(* are scaled by Unit, angles are in thousandths of a degree.  Python sets *)
(* and dicts are iterated in an order the program does not control: every  *)
(* loop over one takes its order nondeterministically.                     *)
(***************************************************************************)
EXTENDS Integers, Sequences, FiniteSets, TLC

VARIABLES
    shape,              \* the shape read from the STEP file
    pc,                 \* position of dfm_check in its pipeline
    issues,             \* the list of issues built so far
    edge_to_faces,      \* edge -> set of faces incident to it
    face_to_faces,      \* face -> set of faces sharing an edge with it
    countersink_cones,  \* cones claimed by a counter-sink
    counterbore_planes, \* horizontal planes claimed by a counter-bore
    tight_corner_sets,  \* face groups of the small-radius corners
    run,                \* 1 in the first call of dfm_check, 2 in the second
    first               \* what the first call returned

vars == <<shape, pc, issues, edge_to_faces, face_to_faces, countersink_cones,
          counterbore_planes, tight_corner_sets, run, first>>

(***************************************************************************)
(* Bounds and constants                                                    *)
(***************************************************************************)
\* The number of features cut into the base plate of an input shape.
MaxFeatures == 2

\* The length of a unit vector (the 1 of is_close(abs(Axis.z), 1)).
Unit == 85
\* is_close's tolerance: below the resolution of the model's numbers.
Tol == 1
\* kerf_width is at least 3.175 mm.
MinKerf == 254
\* The sampling grid of the leftover surfaces.
n_points == 20
\* 10 degrees: the limit between tight-corner-mild and tight-corner.
shallow_limit == 10000

Abs(x) == IF x < 0 THEN -x ELSE x
Max(a, b) == IF a > b THEN a ELSE b
Dot(a, b) == a[1] * b[1] + a[2] * b[2] + a[3] * b[3]
Minus(a, b) == <<a[1] - b[1], a[2] - b[2], a[3] - b[3]>>

is_close(a, b) == Abs(a - b) < Tol

\* 'faces': None.  A face list is never empty, so the empty list stands for None.
None == << >>

RECURSIVE Orders(_)
\* The orders a loop may iterate the set S in.
Orders(S) ==
    IF S = {} THEN {<< >>}
    ELSE UNION {{<<x>> \o t : t \in Orders(S \ {x})} : x \in S}

(***************************************************************************)
(* Input shapes: a base plate and its features.                            *)
(***************************************************************************)
Thicknesses == {160, 400}

Box(x1, x2, y1, y2, z1, z2) ==
    [XMin |-> x1, XMax |-> x2, YMin |-> y1, YMax |-> y2, ZMin |-> z1, ZMax |-> z2]

\* A planar face with the given normal.
PlaneFace(axis, box) ==
    [Surface |-> "Plane", Axis |-> axis, Center |-> <<0, 0, 0>>, Radius |-> 0,
     BoundBox |-> box, ParameterRange |-> <<0, 20, 0, 20>>,
     loc |-> <<0, 0, 0>>, norm |-> axis, bend |-> 0, sweep |-> 0]

\* A face of a surface of revolution about an axis through (cx, 0).  side is
\* -1 when the normal points to the axis (a hole), 1 when it points away.
\* sweep is the angle between the normals at the two corners of the
\* parameter range.
RoundFace(surface, axis, cx, r, side, box, sweep) ==
    [Surface |-> surface, Axis |-> axis, Center |-> <<cx, 0, 0>>, Radius |-> r,
     BoundBox |-> box, ParameterRange |-> <<0, 360, 0, 20>>,
     loc |-> <<cx + r, 0, box.ZMin>>, norm |-> <<side * Unit, 0, 0>>,
     bend |-> 0, sweep |-> sweep]

\* A free-form face.  Its normal is horizontal where u < bend and has a
\* vertical component where u >= bend.
FreeFace(bend, box) ==
    [Surface |-> "BSplineSurface", Axis |-> <<0, 0, 0>>, Center |-> <<0, 0, 0>>,
     Radius |-> 0, BoundBox |-> box, ParameterRange |-> <<0, 40, 0, 20>>,
     loc |-> <<0, 0, 0>>, norm |-> <<Unit, 0, 0>>, bend |-> bend, sweep |-> 0]

\* An edge.  faces: the faces it bounds; vec: EndPoint - StartPoint of its
\* curve; angle: the angle between the normals of its faces at StartPoint;
\* within: the faces whose parameter range holds the test point of the
\* internal/external check.
Edge(curve, vec, fs, angle, within) ==
    [Curve |-> curve, vec |-> vec, faces |-> fs, angle |-> angle, within |-> within]

Ring(fs) == Edge("Circle", <<0, 0, 0>>, fs, 0, {})
Rail(fs) == Edge("Line", <<300, 0, 0>>, fs, 0, {})
\* A vertical straight edge between two walls.
Post(t, fs, angle, within) == Edge("Line", <<0, 0, t>>, fs, angle, within)

\* The closest points of two faces that share no edge: their distance, and
\* for each face the dot product of its normal with the vector to the other.
Gap(a, b, dist, dota, dotb) ==
    [faces |-> {a, b}, dist |-> dist, dot |-> (a :> dota) @@ (b :> dotb)]

Up == <<0, 0, Unit>>
Down == <<0, 0, -Unit>>
East == <<Unit, 0, 0>>
West == <<-Unit, 0, 0>>
North == <<0, Unit, 0>>
South == <<0, -Unit, 0>>

\* In a feature, face 1.. are its own faces, -1 is the upper face of the
\* base plate and -2 its lower face.
Feature(fs, es, gs) == [faces |-> fs, edges |-> es, gaps |-> gs]

\* A round hole through the plate.
Hole(t, x, r) ==
    Feature(<<RoundFace("Cylinder", Up, x, r, -1, Box(x - r, x + r, -r, r, 0, t), 0)>>,
            <<Ring({-1, 1}), Ring({1, -2})>>, {})

\* A conical recess above a hole; dx moves the hole off the cone's axis,
\* side is 1 for a raised cone.
Countersink(t, x, dx, side) ==
    Feature(<<RoundFace("Cone", Up, x, 500, side, Box(x - 500, x + 500, -500, 500, t - 40, t), 0),
              RoundFace("Cylinder", Up, x + dx, 300, -1,
                        Box(x + dx - 300, x + dx + 300, -300, 300, 0, t - 40), 0)>>,
            <<Ring({-1, 1}), Ring({1, 2}), Ring({2, -2})>>, {})

\* A conical hole through the whole plate.
Taper(t, x) ==
    Feature(<<RoundFace("Cone", Up, x, 500, -1, Box(x - 500, x + 500, -500, 500, 0, t), 0)>>,
            <<Ring({-1, 1}), Ring({1, -2})>>, {})

\* A wide bore down to a shoulder and a narrow bore below it; dx moves the
\* narrow bore off the axis.  With top, the narrow bore reaches the upper
\* face beside the wide one (a hole with a concentric pocket over part of
\* its circumference).
Counterbore(t, x, dx, top) ==
    Feature(<<RoundFace("Cylinder", Up, x, 600, -1,
                        Box(x - 600, x + 600, -600, 600, t \div 2, t), 0),
              PlaneFace(Up, Box(x - 600, x + 600, -600, 600, t \div 2, t \div 2)),
              RoundFace("Cylinder", Up, x + dx, 300, -1,
                        Box(x + dx - 300, x + dx + 300, -300, 300, 0,
                            IF top THEN t ELSE t \div 2), 0)>>,
            <<Ring({-1, 1}), Ring({1, 2}), Ring({2, 3}), Ring({3, -2})>>
                \o (IF top THEN <<Ring({-1, 3})>> ELSE << >>),
            {Gap(1, 3, 300, 300 * Unit, -300 * Unit)})

\* A sloped wall, over the full thickness or only below the upper face.
Slope(t, x, full) ==
    Feature(<<PlaneFace(<<68, 0, 51>>, Box(x, x + 30, -300, 300, IF full THEN 0 ELSE t - 40, t))>>,
            <<Rail({-1, 1})>> \o (IF full THEN <<Rail({1, -2})>> ELSE << >>), {})

\* A rounded upper edge: a cylinder or cone about a horizontal axis.
Round(t, x, surface) ==
    Feature(<<RoundFace(surface, North, x, 40, 1, Box(x, x + 40, -300, 300, t - 40, t), 90000)>>,
            <<Rail({-1, 1})>>, {})

\* A spherical or toroidal dimple.
Dimple(t, x, surface) ==
    Feature(<<RoundFace(surface, Up, x, 100, -1, Box(x - 100, x + 100, -100, 100, t - 100, t), 0)>>,
            <<Ring({-1, 1})>>, {})

\* A free-form wall.
Spline(t, x, bend) ==
    Feature(<<FreeFace(bend, Box(x, x + 300, -300, 300, 0, t))>>,
            <<Edge("BSplineCurve", <<300, 40, 0>>, {-1, 1}, 0, {})>>, {})

\* Two walls meeting at a vertical edge.  second is the normal of the
\* second wall, angle the angle of the two normals; inside tells an
\* internal corner.
Corner(t, x, second, angle, inside) ==
    Feature(<<PlaneFace(East, Box(x, x, 0, 300, 0, t)),
              PlaneFace(second, Box(x, x + 300, 0, 0, 0, t))>>,
            <<Post(t, {1, 2}, angle, IF inside THEN {1, 2} ELSE {1}), Rail({-1, 1})>>,
            {})

\* A notch of width w cut in from the rim: two facing walls and an end wall.
Notch(t, x, w) ==
    Feature(<<PlaneFace(South, Box(x, x + 300, w, w, 0, t)),
              PlaneFace(East, Box(x, x, 0, w, 0, t)),
              PlaneFace(North, Box(x, x + 300, 0, 0, 0, t))>>,
            <<Post(t, {1, 2}, 90000, {1, 2}), Post(t, {2, 3}, 90000, {2, 3})>>,
            {Gap(1, 3, w, w * Unit, w * Unit)})

\* A tab of width w standing out between two coplanar walls (1 and 4); 2
\* and 3 are the sides of the tab.
Tab(t, x, w) ==
    Feature(<<PlaneFace(East, Box(x, x, -300, 0, 0, t)),
              PlaneFace(South, Box(x, x + 300, 0, 0, 0, t)),
              PlaneFace(North, Box(x, x + 300, w, w, 0, t)),
              PlaneFace(East, Box(x, x, w, 300, 0, t))>>,
            <<Post(t, {1, 2}, 90000, {1, 2}), Post(t, {3, 4}, 90000, {3, 4})>>,
            {Gap(1, 4, w, 0, 0), Gap(2, 3, w, -w * Unit, -w * Unit),
             Gap(1, 3, w, 0, -w * Unit), Gap(2, 4, w, -w * Unit, 0)})

\* Two walls joined by a vertical rounding of radius r that turns by sweep.
Fillet(t, x, r, side, second, sweep) ==
    Feature(<<PlaneFace(East, Box(x, x, r, 300, 0, t)),
              RoundFace("Cylinder", Up, x + r, r, side, Box(x, x + r, 0, r, 0, t), sweep),
              PlaneFace(second, Box(x + r, x + 300, 0, 0, 0, t))>>,
            <<Post(t, {1, 2}, 0, {1, 2}), Post(t, {2, 3}, 0, {2, 3})>>,
            {Gap(1, 3, r, -side * r * Unit, -side * r * Unit)})

\* The features an input shape may have, at thickness t and position x.
FeatureKinds == 1 .. 30

FeatureOf(k, t, x) ==
    CASE k = 1 -> Hole(t, x, 100)
      [] k = 2 -> Hole(t, x, 127)
      [] k = 3 -> Hole(t, x, 200)
      [] k = 4 -> Countersink(t, x, 0, -1)
      [] k = 5 -> Countersink(t, x, 50, -1)
      [] k = 6 -> Countersink(t, x, 0, 1)
      [] k = 7 -> Taper(t, x)
      [] k = 8 -> Counterbore(t, x, 0, FALSE)
      [] k = 9 -> Counterbore(t, x, 50, FALSE)
      [] k = 10 -> Counterbore(t, x, 0, TRUE)
      [] k = 11 -> Slope(t, x, TRUE)
      [] k = 12 -> Slope(t, x, FALSE)
      [] k = 13 -> Round(t, x, "Cylinder")
      [] k = 14 -> Round(t, x, "Cone")
      [] k = 15 -> Dimple(t, x, "Sphere")
      [] k = 16 -> Dimple(t, x, "Toroid")
      [] k = 17 -> Spline(t, x, 41)
      [] k = 18 -> Spline(t, x, 38)
      [] k = 19 -> Spline(t, x, 39)
      [] k = 20 -> Corner(t, x, North, 90000, TRUE)
      [] k = 21 -> Corner(t, x, <<13, 84, 0>>, 8797, TRUE)
      [] k = 22 -> Corner(t, x, South, 90000, FALSE)
      [] k = 23 -> Notch(t, x, 100)
      [] k = 24 -> Notch(t, x, t)
      [] k = 25 -> Tab(t, x, 100)
      [] k = 26 -> Fillet(t, x, 100, -1, North, 90000)
      [] k = 27 -> Fillet(t, x, 100, 1, South, 90000)
      [] k = 28 -> Fillet(t, x, 100, -1, <<13, 84, 0>>, 8797)
      [] k = 29 -> Fillet(t, x, 800, -1, North, 90000)
      [] k = 30 -> Notch(t, x, 1000)

\* The shape S with the feature F cut into it.
Attach(S, F) ==
    LET off == Len(S.Faces)
        ref(i) == IF i = -1 THEN 1 ELSE IF i = -2 THEN 2 ELSE off + i
    IN  [S EXCEPT
         !.Faces = @ \o F.faces,
         !.Edges = @ \o [k \in 1 .. Len(F.edges) |->
                            [F.edges[k] EXCEPT !.faces = {ref(i) : i \in @},
                                               !.within = {ref(i) : i \in @}]],
         !.Gaps = @ \cup {[faces |-> {ref(i) : i \in g.faces}, dist |-> g.dist,
                           dot |-> [j \in {ref(i) : i \in g.faces} |->
                                       g.dot[CHOOSE i \in g.faces : ref(i) = j]]]
                          : g \in F.gaps}]

\* A round plate: upper face, lower face and rim, with the rim's seam.
Disc(t) ==
    [Faces |-> <<PlaneFace(Up, Box(-8000, 8000, -8000, 8000, t, t)),
                 PlaneFace(Down, Box(-8000, 8000, -8000, 8000, 0, 0)),
                 RoundFace("Cylinder", Up, 0, 8000, 1, Box(-8000, 8000, -8000, 8000, 0, t), 0)>>,
     Edges |-> <<Ring({1, 3}), Ring({2, 3}), Post(t, {3}, 0, {})>>,
     Gaps |-> {},
     BoundBox |-> Box(-8000, 8000, -8000, 8000, 0, t)]

\* A plate whose upper face is sloped: one horizontal plane only.
Wedge(t) ==
    [Disc(t) EXCEPT !.Faces[1] = PlaneFace(<<13, 0, 84>>, Box(-8000, 8000, -8000, 8000, t - 40, t))]

\* A rectangular bar of width w with four walls 3..6; walls 3 and 5 are
\* opposite, with the bar's material between them.
Bar(t, w) ==
    [Faces |-> <<PlaneFace(Up, Box(-8000, 8000, 0, w, t, t)),
                 PlaneFace(Down, Box(-8000, 8000, 0, w, 0, 0)),
                 PlaneFace(South, Box(-8000, 8000, 0, 0, 0, t)),
                 PlaneFace(East, Box(8000, 8000, 0, w, 0, t)),
                 PlaneFace(North, Box(-8000, 8000, w, w, 0, t)),
                 PlaneFace(West, Box(-8000, -8000, 0, w, 0, t))>>,
     Edges |-> <<Post(t, {3, 4}, 90000, {3}), Post(t, {4, 5}, 90000, {4}),
                 Post(t, {5, 6}, 90000, {5}), Post(t, {6, 3}, 90000, {}),
                 Rail({1, 3}), Rail({1, 4}), Rail({1, 5}), Rail({1, 6}),
                 Rail({2, 3}), Rail({2, 4}), Rail({2, 5}), Rail({2, 6})>>,
     Gaps |-> {Gap(3, 5, w, -w * Unit, -w * Unit)},
     BoundBox |-> Box(-8000, 8000, 0, w, 0, t)]

Bases == {"disc", "wedge", "bar", "plank"}

BaseOf(b, t) ==
    CASE b = "disc" -> Disc(t)
      [] b = "wedge" -> Wedge(t)
      [] b = "bar" -> Bar(t, 100)
      [] b = "plank" -> Bar(t, 1000)

RECURSIVE FeatureLists(_)
\* Lists of at most n features; the order of the features in the face list
\* is the order of their kinds.
FeatureLists(n) ==
    IF n = 0 THEN {<< >>}
    ELSE LET shorter == FeatureLists(n - 1)
             longest == {s \in shorter : Len(s) = n - 1}
         IN  shorter \cup
             UNION {{Append(s, k) : k \in {j \in FeatureKinds : s = << >> \/ s[Len(s)] <= j}} :
                    s \in longest}

RECURSIVE Build(_, _, _, _)
Build(S, t, s, i) ==
    IF i > Len(s) THEN S
    ELSE Build(Attach(S, FeatureOf(s[i], t, 2000 * i - 4000)), t, s, i + 1)

\* A round plate with up to MaxFeatures features, or a plate of another
\* outline with one feature less.
Shapes ==
    UNION {{Build(BaseOf(b, t), t, s, 1) :
               s \in FeatureLists(IF b = "disc" THEN MaxFeatures ELSE MaxFeatures - 1)} :
           b \in Bases, t \in Thicknesses}

(***************************************************************************)
(* Loops over sets and dicts                                               *)
(***************************************************************************)
\* What one iteration does: the issues it appends and what it claims.
Effect(out, claim) == [out |-> out, claim |-> claim]
NoEffect == Effect(<< >>, {})

RECURSIVE Chain(_, _)
\* The iterations o[1], o[2], ... one after the other, each with one of its
\* possible effects.
Chain(o, effs) ==
    IF o = << >> THEN {NoEffect}
    ELSE {Effect(h.out \o t.out, h.claim \cup t.claim) :
            h \in effs[Head(o)], t \in Chain(Tail(o), effs)}

\* What a loop over DOMAIN effs can do, effs[x] being the possible effects
\* of the iteration for x.  An iteration without effect leaves no trace, so
\* the loop is the chain of the other iterations, in any order.
Loop(effs) ==
    UNION {Chain(o, effs) : o \in Orders({x \in DOMAIN effs : effs[x] # {NoEffect}})}


(***************************************************************************)
(* dfm_check: the classification of the faces                              *)
(***************************************************************************)
\* shape.Faces, as the positions of the list; faces.index(f) counts from 0.
faces == DOMAIN shape.Faces
index(f) == f - 1
Surface(f) == shape.Faces[f].Surface
Axis(f) == shape.Faces[f].Axis
BoundBox(f) == shape.Faces[f].BoundBox

\* Default kerf width is the part thickness, to a minimum of 0.125".
kerf_width == Max(MinKerf, shape.BoundBox.ZMax - shape.BoundBox.ZMin)

\* The test of a plane, cylinder or cone for an axis along z.
vertical_axis(f) ==
    /\ is_close(Axis(f)[1], 0)
    /\ is_close(Axis(f)[2], 0)
    /\ is_close(Abs(Axis(f)[3]), Unit)

planes == {f \in faces : Surface(f) = "Plane"}
horizontal_planes == {p \in planes : vertical_axis(p)}
angled_planes == {p \in planes \ horizontal_planes : ~is_close(Axis(p)[3], 0)}
cylinders == {f \in faces : Surface(f) = "Cylinder"}
vertical_cylinders == {c \in cylinders : vertical_axis(c)}
cones == {f \in faces : Surface(f) = "Cone"}
vertical_cones == {c \in cones : vertical_axis(c)}
bad_surfaces == {f \in faces : Surface(f) \in {"Sphere", "Toroid"}}
leftovers == (((faces \ planes) \ cylinders) \ cones) \ bad_surfaces

\* utils.is_concave: the vector from the axis to a point of the face is
\* opposite to the normal at that point.
is_concave(f) ==
    LET F == shape.Faces[f]
    IN  Dot(Minus(F.loc, F.Center), F.norm) < 0

(***************************************************************************)
(* dfm_check: the adjacency maps                                           *)
(***************************************************************************)
edges == DOMAIN shape.Edges
\* f.Edges
Edges(f) == {e \in edges : f \in shape.Edges[e].faces}

new_edge_to_faces == [e \in edges |-> {f \in faces : e \in Edges(f)}]

\* new_face_to_faces without the removal of the face itself.
face_to_faces_with_self(e2f) == [f \in faces |-> UNION {e2f[e] : e \in Edges(f)}]

\* The faces of the edges of f, f itself removed.
new_face_to_faces(e2f) == [f \in faces |-> UNION {e2f[e] : e \in Edges(f)} \ {f}]

Topology ==
    /\ pc = "start"
    /\ edge_to_faces' = new_edge_to_faces
    /\ face_to_faces' = new_face_to_faces(edge_to_faces')
    /\ pc' = "gate"
    /\ UNCHANGED <<shape, issues, countersink_cones, counterbore_planes,
                   tight_corner_sets, run, first>>

(***************************************************************************)
(* dfm_check: the early exit                                               *)
(***************************************************************************)
Issue(kind, fs) == [issue |-> kind, faces |-> fs]

\* f.normalAt(u, v).z of a leftover face.
normalAt_z(f, u, v) == IF u >= shape.Faces[f].bend THEN 51 ELSE 0

\* tilted with a grid that stops one column and one row early.
tilted_short_grid(f) ==
    LET r == shape.Faces[f].ParameterRange
    IN  \E a \in 0 .. n_points - 2, b \in 0 .. n_points - 2 :
            LET u == ((r[2] - r[1]) * a) \div n_points + r[1]
                v == ((r[4] - r[3]) * b) \div n_points + r[3]
            IN  ~is_close(normalAt_z(f, u, v), 0)

\* Some point of the n_points x n_points grid over f has a normal that is
\* not horizontal.
tilted(f) ==
    LET r == shape.Faces[f].ParameterRange
    IN  \E a \in 0 .. n_points - 1, b \in 0 .. n_points - 1 :
            LET u == ((r[2] - r[1]) * a) \div n_points + r[1]
                v == ((r[4] - r[3]) * b) \div n_points + r[3]
            IN  ~is_close(normalAt_z(f, u, v), 0)

outside_problem_space ==
    \/ Cardinality(horizontal_planes) < 2
    \/ bad_surfaces # {}
    \/ \E f \in leftovers : tilted(f)

Gate ==
    /\ pc = "gate"
    /\ IF outside_problem_space
       THEN /\ issues' = Append(issues, Issue("non-uniform", None))
            /\ pc' = "done"
       ELSE /\ issues' = issues
            /\ pc' = "radius"
    /\ UNCHANGED <<shape, edge_to_faces, face_to_faces, countersink_cones,
                   counterbore_planes, tight_corner_sets, run, first>>

(***************************************************************************)
(* Detector 1: radius                                                      *)
(***************************************************************************)
\* off_axis without the cones.
off_axis_cylinders_only == cylinders \ vertical_cylinders

off_axis == (cylinders \ vertical_cylinders) \cup (cones \ vertical_cones)

Radius ==
    /\ pc = "radius"
    /\ issues' = IF off_axis # {} THEN Append(issues, Issue("radius", None)) ELSE issues
    /\ pc' = "corners"
    /\ UNCHANGED <<shape, edge_to_faces, face_to_faces, countersink_cones,
                   counterbore_planes, tight_corner_sets, run, first>>

(***************************************************************************)
(* Detector 2: sharp internal corners                                      *)
(***************************************************************************)
\* internal that is content with the test point inside one of the faces.
internal_any(E, fs) == \E f \in fs : f \in E.within

\* The for-else over the faces of the edge: the test point is inside the
\* parameter range of every one of them.
internal(E, fs) == \A f \in fs : f \in E.within

\* What the loop body appends for edge e: a sequence of at most one issue.
corner_issue(e) ==
    LET E == shape.Edges[e]
        fs == edge_to_faces[e]
    IN  IF Cardinality(fs) # 2 THEN << >>
        ELSE IF E.Curve # "Line" THEN << >>
        ELSE IF ~(is_close(E.vec[1], 0) /\ is_close(E.vec[2], 0)) THEN << >>
        ELSE IF is_close(E.angle, 0) THEN << >>
        ELSE IF ~internal(E, fs) THEN << >>
        ELSE IF E.angle > shallow_limit THEN <<Issue("tight-corner", None)>>
        ELSE <<Issue("tight-corner-mild", None)>>

TightCorners ==
    /\ pc = "corners"
    /\ \E r \in Loop([e \in DOMAIN edge_to_faces |-> {Effect(corner_issue(e), {})}]) :
            issues' = issues \o r.out
    /\ pc' = "countersink"
    /\ UNCHANGED <<shape, edge_to_faces, face_to_faces, countersink_cones,
                   counterbore_planes, tight_corner_sets, run, first>>

(***************************************************************************)
(* Detector 3: countersinks                                                *)
(***************************************************************************)
Center(f) == shape.Faces[f].Center
aligned(a, b) ==
    /\ is_close(Center(a)[1], Center(b)[1])
    /\ is_close(Center(a)[2], Center(b)[2])

\* cone_cyl that looks for the cone first and the cylinder second only.
cone_cyl_first(s) == s[1] \in vertical_cones /\ s[2] \in vertical_cylinders

\* Exactly one cone and one cylinder, in either order.
cone_cyl(s) ==
    \/ (s[1] \in vertical_cones /\ s[2] \in vertical_cylinders)
    \/ (s[2] \in vertical_cones /\ s[1] \in vertical_cylinders)

\* The loop body for an edge whose faces are listed as s.
countersink_effect(s) ==
    IF Len(s) # 2 THEN NoEffect
    ELSE IF ~cone_cyl(s) THEN NoEffect
    ELSE IF ~(is_concave(s[1]) /\ is_concave(s[2])) THEN NoEffect
    ELSE IF ~aligned(s[1], s[2]) THEN NoEffect
    ELSE Effect(<<Issue("counter-sink", <<index(s[1]), index(s[2])>>)>>,
                {CHOOSE c \in vertical_cones : c \in {s[1], s[2]}})

\* s is the set of faces of the edge, listed in the order of its iteration.
countersink_effects(e) == {countersink_effect(s) : s \in Orders(edge_to_faces[e])}

Countersinks ==
    /\ pc = "countersink"
    /\ \E r \in Loop([e \in DOMAIN edge_to_faces |-> countersink_effects(e)]) :
          /\ issues' = issues \o r.out
          /\ countersink_cones' = r.claim
    /\ pc' = "counterbore"
    /\ UNCHANGED <<shape, edge_to_faces, face_to_faces, counterbore_planes,
                   tight_corner_sets, run, first>>

(***************************************************************************)
(* Detector 4: counterbores                                                *)
(***************************************************************************)
Radius_(f) == shape.Faces[f].Radius

same_limits(c1, c2) == is_close(BoundBox(c1).ZMax, BoundBox(c2).ZMax)

\* The loop body for the pair (c1, c2) of cylinders on the plane p.
counterbore_effect(c1, c2, p) ==
    IF is_close(Radius_(c1), Radius_(c2)) THEN NoEffect
    ELSE IF same_limits(c1, c2) THEN NoEffect
    ELSE IF ~aligned(c1, c2) THEN NoEffect
    ELSE Effect(<<Issue("counter-bore", <<index(c1), index(c2), index(p)>>)>>, {p})

concave_cyls(p) == {c \in vertical_cylinders \cap face_to_faces[p] : is_concave(c)}

\* combinations(L, 2) of the list L.
combinations2(L) ==
    LET n == Len(L)
        pairs == {<<i, j>> : i \in 1 .. n, j \in 1 .. n}
        before(a, b) == a[1] < b[1] \/ (a[1] = b[1] /\ a[2] < b[2])
        upper == {ij \in pairs : ij[1] < ij[2]}
        rank(ij) == Cardinality({k \in upper : before(k, ij)}) + 1
    IN  [r \in 1 .. Cardinality(upper) |->
            LET ij == CHOOSE k \in upper : rank(k) = r IN <<L[ij[1]], L[ij[2]]>>]

RECURSIVE InOrder(_, _, _)
\* The pairs one after the other.
InOrder(pairs, p, i) ==
    IF i > Len(pairs) THEN NoEffect
    ELSE LET h == counterbore_effect(pairs[i][1], pairs[i][2], p)
             t == InOrder(pairs, p, i + 1)
         IN  Effect(h.out \o t.out, h.claim \cup t.claim)

\* The cylinders of a pair that does something on p; the others leave no
\* trace in the loop over the pairs.
paired(p) ==
    {c \in concave_cyls(p) :
        \E d \in concave_cyls(p) \ {c} :
            counterbore_effect(c, d, p) # NoEffect \/ counterbore_effect(d, c, p) # NoEffect}

\* The iteration for the plane p: its cylinders listed in any order.
counterbore_effects(p) ==
    {InOrder(combinations2(L), p, 1) : L \in Orders(paired(p))}

Counterbores ==
    /\ pc = "counterbore"
    /\ \E r \in Loop([p \in horizontal_planes |-> counterbore_effects(p)]) :
          /\ issues' = issues \o r.out
          /\ counterbore_planes' = r.claim
    /\ pc' = "smallhole"
    /\ UNCHANGED <<shape, edge_to_faces, face_to_faces, countersink_cones,
                   tight_corner_sets, run, first>>

(***************************************************************************)
(* Detector 5: small holes and too-small corners                           *)
(***************************************************************************)
\* below_min_radius with the radius compared to the whole kerf width.
below_kerf_width(c) == Radius_(c) < kerf_width

\* c.Surface.Radius < min_radius, where min_radius = 0.5 * kerf_width
below_min_radius(c) == 2 * Radius_(c) < kerf_width

small_radius_effect(c) ==
    IF ~(below_min_radius(c) /\ is_concave(c)) THEN NoEffect
    ELSE LET connected_fs == face_to_faces[c]
             interesting_fs == ((connected_fs \ horizontal_planes) \ cylinders) \ cones
         IN  IF interesting_fs = {}
             THEN Effect(<<Issue("small-hole", <<index(c)>>)>>, {})
             ELSE IF shape.Faces[c].sweep > shallow_limit
             THEN Effect(<<Issue("tight-corner", None)>>, {interesting_fs})
             ELSE Effect(<<Issue("tight-corner-mild", None)>>, {interesting_fs})

\* tight_corner_sets is only asked whether one of its sets holds a pair of
\* faces: the list is kept as the set of its elements.
SmallHoles ==
    /\ pc = "smallhole"
    /\ \E r \in Loop([c \in vertical_cylinders |-> {small_radius_effect(c)}]) :
          /\ issues' = issues \o r.out
          /\ tight_corner_sets' = r.claim
    /\ pc' = "smallcut"
    /\ UNCHANGED <<shape, edge_to_faces, face_to_faces, countersink_cones,
                   counterbore_planes, run, first>>

(***************************************************************************)
(* Detector 6: small cuts                                                  *)
(***************************************************************************)
\* bound_box.enlarge(0.5 * kerf_width), on a box of doubled coordinates.
enlarge2(b, k) ==
    Box(2 * b.XMin - k, 2 * b.XMax + k, 2 * b.YMin - k, 2 * b.YMax + k,
        2 * b.ZMin - k, 2 * b.ZMax + k)

intersect(a, b) ==
    ~ \/ b.XMax < a.XMin \/ b.XMin > a.XMax
      \/ b.YMax < a.YMin \/ b.YMin > a.YMax
      \/ b.ZMax < a.ZMin \/ b.ZMin > a.ZMax

\* f1.distToShape(f2): the distance, and the dot products of each face's
\* normal at its closest point with the vector to the other closest point.
\* Faces the shape gives no closest points for are far apart, with
\* material between them.
distToShape(f1, f2) ==
    IF \E g \in shape.Gaps : g.faces = {f1, f2}
    THEN CHOOSE g \in shape.Gaps : g.faces = {f1, f2}
    ELSE [faces |-> {f1, f2}, dist |-> 100000, dot |-> [f \in {f1, f2} |-> -Unit]]

\* The vector to the other face is against the normal: material between.
against(dot) == dot < 0

\* The body of the inner loop for the pair (f1, f2).
small_cut_effect(f1, f2) ==
    IF \E tight_corner \in tight_corner_sets : {f1, f2} \subseteq tight_corner THEN NoEffect
    ELSE IF ~intersect(enlarge2(BoundBox(f1), kerf_width), enlarge2(BoundBox(f2), kerf_width))
    THEN NoEffect
    ELSE LET d == distToShape(f1, f2)
         IN  IF d.dist > kerf_width THEN NoEffect
             ELSE IF against(d.dot[f1]) THEN NoEffect
             ELSE IF against(d.dot[f2]) THEN NoEffect
             ELSE Effect(<<Issue("small-cut", <<index(f1), index(f2)>>)>>, {})

\* The iteration of the outer loop for f1, the faces of seen done before.
inner_effects(f1, seen) ==
    LET connected_fs == face_to_faces[f1]
        interesting_fs == ((faces \ connected_fs) \ horizontal_planes) \ (seen \cup {f1})
    IN  Loop([f2 \in interesting_fs |-> {small_cut_effect(f1, f2)}])

RECURSIVE Outer(_, _)
\* The outer loop in the order o, the faces of seen done before.
Outer(o, seen) ==
    IF o = << >> THEN {NoEffect}
    ELSE {Effect(h.out \o t.out, {}) :
            h \in inner_effects(Head(o), seen), t \in Outer(Tail(o), seen \cup {Head(o)})}

\* The faces that are in a pair that does something; the iterations for
\* the others leave no trace, wherever they come in the order.
cutting ==
    {f \in faces \ horizontal_planes :
        \E g \in (faces \ horizontal_planes) \ (face_to_faces[f] \cup {f}) :
            small_cut_effect(f, g) # NoEffect \/ small_cut_effect(g, f) # NoEffect}

SmallCuts ==
    /\ pc = "smallcut"
    /\ \E o \in Orders(cutting) : \E r \in Outer(o, {}) : issues' = issues \o r.out
    /\ pc' = "draft"
    /\ UNCHANGED <<shape, edge_to_faces, face_to_faces, countersink_cones,
                   counterbore_planes, tight_corner_sets, run, first>>

(***************************************************************************)
(* Detector 7: drafts and chamfers                                         *)
(***************************************************************************)
\* unhandled_vertical_cones that forgets the countersinks.
all_vertical_cones == vertical_cones

unhandled_vertical_cones == vertical_cones \ countersink_cones
zmax == shape.BoundBox.ZMax
zmin == shape.BoundBox.ZMin

full_depth(f) == is_close(BoundBox(f).ZMax, zmax) /\ is_close(BoundBox(f).ZMin, zmin)

\* once without the flag.
once_more(flag, kind) == <<Issue(kind, None)>>

\* if not flag: issues.append(...)
once(flag, kind) == IF ~flag THEN <<Issue(kind, None)>> ELSE << >>

RECURSIVE draft_loop(_, _, _)
\* What the loop appends for the faces o, with the two flags as they are.
draft_loop(o, drafted, chamfered) ==
    IF o = << >> THEN << >>
    ELSE IF full_depth(Head(o))
    THEN once(drafted, "draft") \o draft_loop(Tail(o), TRUE, chamfered)
    ELSE once(chamfered, "chamfer") \o draft_loop(Tail(o), drafted, TRUE)

DraftsChamfers ==
    /\ pc = "draft"
    /\ \E o1 \in Orders(angled_planes), o2 \in Orders(unhandled_vertical_cones) :
          issues' = issues \o draft_loop(o1 \o o2, FALSE, FALSE)
    /\ pc' = "residual"
    /\ UNCHANGED <<shape, edge_to_faces, face_to_faces, countersink_cones,
                   counterbore_planes, tight_corner_sets, run, first>>

(***************************************************************************)
(* Detector 8: residual non-uniform thickness                              *)
(***************************************************************************)
\* append that puts the issue in front.
insert_first(list, x) == <<x>> \o list

\* issues.append(x)
append(list, x) == Append(list, x)

\* unclaimed_planes that forgets the counterbores.
all_horizontal_planes == horizontal_planes

unclaimed_planes == horizontal_planes \ counterbore_planes

Residual ==
    /\ pc = "residual"
    /\ issues' = IF Cardinality(unclaimed_planes) # 2
                 THEN append(issues, Issue("non-uniform", None))
                 ELSE issues
    /\ pc' = "done"
    /\ UNCHANGED <<shape, edge_to_faces, face_to_faces, countersink_cones,
                   counterbore_planes, tight_corner_sets, run, first>>

(***************************************************************************)
(* The specifications                                                      *)
(***************************************************************************)
Init ==
    /\ shape \in Shapes
    /\ pc = "start"
    /\ issues = << >>
    /\ edge_to_faces = << >>
    /\ face_to_faces = << >>
    /\ countersink_cones = {}
    /\ counterbore_planes = {}
    /\ tight_corner_sets = {}
    /\ run = 1
    /\ first = << >>

\* dfm_check is called a second time on the same STEP file.
Rerun ==
    /\ pc = "done"
    /\ run = 1
    /\ run' = 2
    /\ first' = issues
    /\ issues' = << >>
    /\ edge_to_faces' = << >>
    /\ face_to_faces' = << >>
    /\ countersink_cones' = {}
    /\ counterbore_planes' = {}
    /\ tight_corner_sets' = {}
    /\ pc' = "start"
    /\ UNCHANGED shape

Next ==
    \/ Topology
    \/ Gate
    \/ Radius
    \/ TightCorners
    \/ Countersinks
    \/ Counterbores
    \/ SmallHoles
    \/ SmallCuts
    \/ DraftsChamfers
    \/ Residual

\* One call of dfm_check.
Spec == Init /\ [][Next]_vars

\* Two calls of dfm_check on the same input.
SpecTwice == Init /\ [][Next \/ Rerun]_vars

(***************************************************************************)
(* The properties                                                          *)
(***************************************************************************)
\* What the properties say of the input is read from the shape itself.
FaceIds == DOMAIN shape.Faces
F(f) == shape.Faces[f]
IsVertical(f) == F(f).Axis \in {Up, Down}
HorizontalPlanes == {f \in FaceIds : F(f).Surface = "Plane" /\ IsVertical(f)}
Walls == {f \in FaceIds : F(f).Surface = "Plane" /\ F(f).Axis[3] = 0}
VerticalCylinders == {f \in FaceIds : F(f).Surface = "Cylinder" /\ IsVertical(f)}
VerticalCones == {f \in FaceIds : F(f).Surface = "Cone" /\ IsVertical(f)}
OffAxis == {f \in FaceIds : F(f).Surface \in {"Cylinder", "Cone"} /\ ~IsVertical(f)}
Spheroids == {f \in FaceIds : F(f).Surface \in {"Sphere", "Toroid"}}
Leftover == {f \in FaceIds : F(f).Surface \notin {"Plane", "Cylinder", "Cone", "Sphere", "Toroid"}}
Concave(f) == (F(f).loc[1] - F(f).Center[1]) * F(f).norm[1] < 0
Coaxial(a, b) == F(a).Center[1] = F(b).Center[1] /\ F(a).Center[2] = F(b).Center[2]
Adjacent(a, b) == a # b /\ \E e \in DOMAIN shape.Edges : {a, b} \subseteq shape.Edges[e].faces
Thickness == shape.BoundBox.ZMax - shape.BoundBox.ZMin
Kerf == IF Thickness > 254 THEN Thickness ELSE 254

\* A sample of the 20 x 20 grid over f has a normal with a z component.
SampledTilt(f) ==
    \E a \in 0 .. 19 :
        F(f).ParameterRange[1]
            + ((F(f).ParameterRange[2] - F(f).ParameterRange[1]) * a) \div 20 >= F(f).bend

GateTriggers ==
    \/ Cardinality(HorizontalPlanes) < 2
    \/ Spheroids # {}
    \/ \E f \in Leftover : SampledTilt(f)

Count(kind) == Cardinality({i \in DOMAIN issues : issues[i].issue = kind})
Has(kind) == Count(kind) > 0
Returned == pc = "done"
\* The detectors ran, and the one at position stage is over.
Stages == <<"radius", "corners", "countersink", "counterbore", "smallhole",
            "smallcut", "draft", "residual", "done">>
Position(p) == CHOOSE i \in DOMAIN Stages : Stages[i] = p
After(stage) ==
    /\ ~GateTriggers
    /\ pc \in {Stages[i] : i \in DOMAIN Stages}
    /\ Position(pc) > Position(stage)

\* C1: when the shape has fewer than 2 horizontal planes, a sphere or torus
\* face, or a leftover face with a tilted grid sample, no detector runs and
\* dfm_check returns exactly the one issue non-uniform without faces.
C1_EarlyExit ==
    GateTriggers =>
        /\ pc \in {"start", "gate", "done"}
        /\ Returned => issues = <<[issue |-> "non-uniform", faces |-> None]>>

\* C1's case: a free-form face tilted at its last grid column only, on a
\* shape with two horizontal planes, no sphere or torus, and a rounded edge
\* that the radius detector would report.
C1_Witness ==
    /\ Returned
    /\ Cardinality(HorizontalPlanes) >= 2
    /\ Spheroids = {}
    /\ \E f \in Leftover : SampledTilt(f)
    /\ OffAxis # {}
    /\ Len(issues) = 1

C3_SameListTwice == (run = 2 /\ Returned) => issues = first

\* C4: draft occurs at most once and chamfer at most once in the issues.
C4_DraftChamferOnce == Count("draft") <= 1 /\ Count("chamfer") <= 1

\* C4's case: two sloped walls over the full depth, and one draft returned.
C4_Witness ==
    /\ Returned
    /\ Cardinality({f \in FaceIds : /\ F(f).Surface = "Plane"
                                    /\ ~IsVertical(f) /\ F(f).Axis[3] # 0
                                    /\ F(f).BoundBox.ZMin = shape.BoundBox.ZMin
                                    /\ F(f).BoundBox.ZMax = shape.BoundBox.ZMax}) >= 2
    /\ Count("draft") = 1

\* The closest points of the faces a and b, when the shape gives them.
Gaps(a, b) == {g \in shape.Gaps : g.faces = {a, b}}

\* C5: every small-cut issue is for two faces whose connecting vector has a
\* positive dot product with the normal of each.
C5_SmallCutOnlyFacing ==
    \A i \in DOMAIN issues :
        issues[i].issue = "small-cut" =>
            LET a == issues[i].faces[1] + 1
                b == issues[i].faces[2] + 1
            IN  \E g \in Gaps(a, b) : g.dot[a] > 0 /\ g.dot[b] > 0

\* A countersink: a vertical cone and a vertical cylinder, both concave, on
\* one axis.
IsCountersink(a, b) ==
    /\ \/ a \in VerticalCones /\ b \in VerticalCylinders
       \/ b \in VerticalCones /\ a \in VerticalCylinders
    /\ Concave(a) /\ Concave(b)
    /\ Coaxial(a, b)

Listed(kind, fs) == \E i \in DOMAIN issues : issues[i] = [issue |-> kind, faces |-> fs]

\* C6: once the countersink detector is over, every edge with two faces a
\* and b has a counter-sink issue iff the two are a countersink, whichever
\* of them came first, and the claimed cones are the cones of those pairs.
C6_CountersinkSymmetric ==
    After("countersink") =>
        /\ \A e \in DOMAIN shape.Edges :
              \A a, b \in shape.Edges[e].faces :
                  (a # b /\ Cardinality(shape.Edges[e].faces) = 2) =>
                      (IsCountersink(a, b) <=>
                          \/ Listed("counter-sink", <<a - 1, b - 1>>)
                          \/ Listed("counter-sink", <<b - 1, a - 1>>))
        /\ countersink_cones =
              {c \in VerticalCones :
                  \E e \in DOMAIN shape.Edges : \E d \in shape.Edges[e].faces :
                      shape.Edges[e].faces = {c, d} /\ c # d /\ IsCountersink(c, d)}

\* C6's case: a countersink reported with its cylinder first, the cone
\* claimed.
C6_Witness ==
    /\ After("countersink")
    /\ \E c \in VerticalCones, d \in VerticalCylinders :
          /\ Listed("counter-sink", <<d - 1, c - 1>>)
          /\ c \in countersink_cones

\* A counterbore on the plane p: two concave vertical cylinders next to p,
\* of different radii and different vertical extents, on one axis.
IsCounterbore(c1, c2, p) ==
    /\ c1 # c2
    /\ {c1, c2} \subseteq VerticalCylinders
    /\ Concave(c1) /\ Concave(c2)
    /\ Adjacent(c1, p) /\ Adjacent(c2, p)
    /\ F(c1).Radius # F(c2).Radius
    /\ <<F(c1).BoundBox.ZMin, F(c1).BoundBox.ZMax>> # <<F(c2).BoundBox.ZMin, F(c2).BoundBox.ZMax>>
    /\ Coaxial(c1, c2)

ListedAsSet(kind, fs) ==
    \E i \in DOMAIN issues :
        /\ issues[i].issue = kind
        /\ Len(issues[i].faces) = Cardinality(fs)
        /\ {issues[i].faces[k] + 1 : k \in DOMAIN issues[i].faces} = fs

\* C7: once the counterbore detector is over, every counterbore on a
\* horizontal plane has its counter-bore issue and its plane is claimed, and
\* no other pair of cylinders on a horizontal plane has one.
C7_CounterboreExtents ==
    After("counterbore") =>
        \A p \in HorizontalPlanes : \A c1, c2 \in VerticalCylinders :
            (c1 # c2 /\ Adjacent(c1, p) /\ Adjacent(c2, p) /\ Concave(c1) /\ Concave(c2)) =>
                IF IsCounterbore(c1, c2, p)
                THEN ListedAsSet("counter-bore", {c1, c2, p}) /\ p \in counterbore_planes
                ELSE ~ListedAsSet("counter-bore", {c1, c2, p})

\* The faces next to c that are no horizontal plane, cylinder or cone.
Remaining(c) ==
    {f \in FaceIds : Adjacent(f, c) /\ f \notin HorizontalPlanes
                     /\ F(f).Surface \notin {"Cylinder", "Cone"}}

SmallConcave == {c \in VerticalCylinders : Concave(c) /\ 2 * F(c).Radius < Kerf}

\* C8: the small-radius step appends exactly one issue for each concave
\* vertical cylinder of radius below kerf/2, in some order, and nothing else:
\* small-hole with the cylinder's index when no face remains next to it,
\* else tight-corner or tight-corner-mild without faces; the remaining faces
\* of those cylinders are the tight-corner groups.
C8_SmallRadiusStep ==
    [][pc = "smallhole" =>
        /\ \E o \in Orders(SmallConcave) :
              /\ Len(issues') = Len(issues) + Len(o)
              /\ SubSeq(issues', 1, Len(issues)) = issues
              /\ \A i \in DOMAIN o :
                    LET x == issues'[Len(issues) + i]
                    IN  IF Remaining(o[i]) = {}
                        THEN x = [issue |-> "small-hole", faces |-> <<o[i] - 1>>]
                        ELSE /\ x.issue \in {"tight-corner", "tight-corner-mild"}
                             /\ x.faces = None
        /\ tight_corner_sets' = {Remaining(c) : c \in SmallConcave} \ {{}}]_vars

\* C8's case: the step is over on a shape with a small hole, a small
\* rounding between two walls and a vertical cylinder that is not both
\* concave and small: a small-hole issue and a tight-corner group.
C8_Witness ==
    /\ pc = "smallcut"
    /\ Has("small-hole")
    /\ tight_corner_sets # {}
    /\ VerticalCylinders \ SmallConcave # {}

\* Material lies between the faces a and b: the vector between their
\* closest points is against both normals.
SolidBetween(a, b) == \A g \in Gaps(a, b) : g.dot[a] < 0 /\ g.dot[b] < 0
Closer(a, b, d) == \E g \in Gaps(a, b) : g.dist < d

\* Two horizontal planes, vertical planar walls, convex vertical edges and
\* material between any two walls closer than the kerf width.
CleanPlate ==
    /\ Cardinality(HorizontalPlanes) = 2
    /\ FaceIds = HorizontalPlanes \cup Walls
    /\ \A e \in DOMAIN shape.Edges :
          LET E == shape.Edges[e]
          IN  (E.Curve = "Line" /\ E.vec[1] = 0 /\ E.vec[2] = 0 /\ Cardinality(E.faces) = 2)
                  => ~(E.faces \subseteq E.within)
    /\ \A a, b \in Walls : (a # b /\ ~Adjacent(a, b) /\ Closer(a, b, Kerf)) => SolidBetween(a, b)

\* C9: dfm_check returns no issue for a clean plate.
C9_CleanPlate == (Returned /\ CleanPlate) => issues = << >>

\* C9's case: a clean plate with two walls closer than the kerf width has
\* been checked.
C9_Witness ==
    /\ Returned
    /\ CleanPlate
    /\ \E a, b \in Walls : a # b /\ ~Adjacent(a, b) /\ Closer(a, b, Kerf)

\* The horizontal planes listed in a counter-bore issue.
ListedPlanes ==
    {p \in HorizontalPlanes :
        \E i \in DOMAIN issues : issues[i].issue = "counter-bore" /\ issues[i].faces[3] = p - 1}

\* C10: when the early exit does not trigger, the returned list holds a
\* non-uniform issue iff the horizontal planes not claimed are not exactly
\* two, the claimed planes being those listed in a counter-bore issue.
C10_ResidualNonUniform ==
    (Returned /\ ~GateTriggers) =>
        /\ counterbore_planes = ListedPlanes
        /\ Has("non-uniform") <=> Cardinality(HorizontalPlanes \ ListedPlanes) # 2

\* C10's case: three horizontal planes, one of them claimed by a
\* counter-bore, and no non-uniform issue.
C10_Witness ==
    /\ Returned
    /\ ~GateTriggers
    /\ Cardinality(HorizontalPlanes) = 3
    /\ Cardinality(ListedPlanes) = 1
    /\ ~Has("non-uniform")

\* The planes that are neither horizontal nor vertical.
Sloped == {f \in FaceIds : F(f).Surface = "Plane" /\ ~IsVertical(f) /\ F(f).Axis[3] # 0}

\* The vertical cones listed in a counter-sink issue.
ListedCones ==
    {c \in VerticalCones :
        \E i \in DOMAIN issues :
            issues[i].issue = "counter-sink" /\ \E j \in 1 .. 2 : issues[i].faces[j] = c - 1}

\* The face f reaches from the bottom of the shape to its top.
Spans(f) ==
    /\ F(f).BoundBox.ZMax = shape.BoundBox.ZMax
    /\ F(f).BoundBox.ZMin = shape.BoundBox.ZMin

\* C11: once the draft/chamfer detector is over, with Q the sloped planes
\* and the vertical cones of no reported counter-sink, there is a draft issue
\* iff a face of Q spans the full z extent of the shape and a chamfer issue
\* iff a face of Q does not span it.
C11_DraftChamferFaces ==
    After("draft") =>
        LET Q == Sloped \cup (VerticalCones \ ListedCones)
        IN  /\ Has("draft") <=> \E f \in Q : Spans(f)
            /\ Has("chamfer") <=> \E f \in Q : ~Spans(f)

\* C11's case: a shape with a reported countersink, whose cone is left out,
\* and a sloped wall over the full depth: a draft and no chamfer.
C11_Witness ==
    /\ Returned
    /\ ListedCones # {}
    /\ \E f \in Sloped : Spans(f)
    /\ Has("draft")
    /\ ~Has("chamfer")

\* The vertical straight edges between two faces that meet at an angle in
\* an internal corner.
EdgeCorners ==
    {e \in DOMAIN shape.Edges :
        LET E == shape.Edges[e]
        IN  /\ Cardinality(E.faces) = 2
            /\ E.Curve = "Line"
            /\ E.vec[1] = 0 /\ E.vec[2] = 0
            /\ E.angle # 0
            /\ E.faces \subseteq E.within}

TightCornerKinds == {"tight-corner", "tight-corner-mild"}

\* The kinds of issue each detector may append.
StepKinds(p) ==
    CASE p = "gate" -> {"non-uniform"}
      [] p = "radius" -> {"radius"}
      [] p = "corners" -> TightCornerKinds
      [] p = "countersink" -> {"counter-sink"}
      [] p = "counterbore" -> {"counter-bore"}
      [] p = "smallhole" -> {"small-hole"} \cup TightCornerKinds
      [] p = "smallcut" -> {"small-cut"}
      [] p = "draft" -> {"draft", "chamfer"}
      [] p = "residual" -> {"non-uniform"}
      [] OTHER -> {}

\* The place in the pipeline of the detector behind the i-th issue: the
\* first tight-corner issues, as many as there are internal sharp vertical
\* edges, are those of the vertical-edge step, the later ones those of the
\* small-radius step.
Rank(i) ==
    LET kind == issues[i].issue
        nth == Cardinality({j \in 1 .. i : issues[j].issue \in TightCornerKinds})
    IN  CASE kind = "radius" -> 1
          [] kind \in TightCornerKinds -> IF nth <= Cardinality(EdgeCorners) THEN 2 ELSE 5
          [] kind = "counter-sink" -> 3
          [] kind = "counter-bore" -> 4
          [] kind = "small-hole" -> 5
          [] kind = "small-cut" -> 6
          [] kind \in {"draft", "chamfer"} -> 7
          [] kind = "non-uniform" -> 8

\* A step leaves the issues it finds as they are and appends only issues of
\* the kinds of the detector that runs.
Grows ==
    /\ Len(issues') >= Len(issues)
    /\ SubSeq(issues', 1, Len(issues)) = issues
    /\ \A i \in Len(issues) + 1 .. Len(issues') : issues'[i].issue \in StepKinds(pc)

\* The issues of a returned list are in the order of the detectors.
Ordered ==
    Returned => \A i, j \in DOMAIN issues : i < j => Rank(i) <= Rank(j)

\* C12: the issue list only grows by appending, each detector appending its
\* own kinds of issue, and in every returned list the issues are in the
\* order of the detectors: radius, tight corners of the vertical edges,
\* counter-sinks, counter-bores, small holes and tight corners of the small
\* radii, small cuts, draft and chamfer, and the residual non-uniform last.
C12_IssueOrder == [][Grows]_vars /\ []Ordered

\* C12's case: a returned list with tight corners of vertical edges, a
\* small cut and the residual non-uniform issue.
C12_Witness ==
    /\ Returned
    /\ ~GateTriggers
    /\ EdgeCorners # {}
    /\ Has("tight-corner")
    /\ Has("small-cut")
    /\ Has("non-uniform")
    /\ issues[Len(issues)].issue = "non-uniform"

\* The two maps have been constructed.
Constructed == pc # "start"

\* Some edge has both a and b among its faces in edge_to_faces.
ShareEdge(a, b) == \E e \in DOMAIN edge_to_faces : {a, b} \subseteq edge_to_faces[e]

\* face_to_faces holds, for every face, the other faces it shares an edge
\* with; it is symmetric and no face is next to itself.
AdjacencyGraph ==
    Constructed =>
        /\ DOMAIN face_to_faces = FaceIds
        /\ \A A, B \in FaceIds : B \in face_to_faces[A] <=> (A # B /\ ShareEdge(A, B))
        /\ \A A, B \in FaceIds : B \in face_to_faces[A] => A \in face_to_faces[B]
        /\ \A A \in FaceIds : A \notin face_to_faces[A]

\* No detector changes the maps.
MapsKept == Constructed => UNCHANGED <<edge_to_faces, face_to_faces>>

\* C13: once the maps are constructed, B is in face_to_faces[A] iff A and B
\* differ and an edge has both among its faces in edge_to_faces, so that the
\* relation is symmetric and without self-loops, and no later step of the
\* check modifies either map.
C13_AdjacencyGraph == []AdjacencyGraph /\ [][MapsKept]_vars

\* C13's case: the maps are constructed for a shape with an edge that has a
\* single face (a seam, the face meeting itself) and with faces next to each
\* other, and the detectors have run over them.
C13_Witness ==
    /\ Returned
    /\ ~GateTriggers
    /\ \E e \in DOMAIN edge_to_faces : Cardinality(edge_to_faces[e]) = 1
    /\ \E A \in FaceIds : Cardinality(face_to_faces[A]) >= 2

=============================================================================
